---- MODULE Spec2Model ----
(***************************************************************************)
(* OContext (src/src/extension.ts): the command handler and the streaming  *)
(* pipeline buildPromptToFile -- ignore filter, path expansion, pre-flight *)
(* gate, assembly into a write stream.                                     *)
(*                                                                         *)
(* Paths are sequences of segments.  A file's bytes are abstracted to its  *)
(* length and the set of offsets that hold a NUL byte.  Every action is    *)
(* the code between two suspension points (await) of the async functions.  *)
(***************************************************************************)
EXTENDS Integers, Sequences, FiniteSets, TLC

VARIABLES
    root,         \* workspaceFolders[0].uri.fsPath, or EmptyPath
    gitignore,    \* <root>/.gitignore on disk: [readable, patterns]
    fs,           \* the files on disk: path -> [exists, readable, len, nuls]
    deletes,      \* number of files removed by the environment so far
    fsPaths,      \* the selected paths handed to buildPromptToFile
    pc,           \* where the handler / buildPromptToFile stands
    allow,        \* the filter built by buildIgnoreFilter
    idx,          \* position of the expansion loop in fsPaths
    inputLog,     \* per input: what its stat / enumeration gave (history)
    files,        \* the collected { abs, rel } entries
    origin,       \* per collected entry: index of the input it came from (history)
    statSeen,     \* per collected entry: the size statSync gave, -1 on failure (history)
    estimatedBytes,
    asked,        \* the modal warning was shown
    choice,       \* its answer
    sink,         \* the write stream: "none", "open", "destroyed", "finished"
    ended,        \* out.end() was called
    listening,    \* the finish/error listeners are attached
    doc,          \* the chunks handed to out.write, in call order
    fileIdx,      \* position of the assembly loop in files
    readLog,      \* per read completed: what readFile gave (history)
    buildResult,  \* the promise of buildPromptToFile
    uncaught,     \* an 'error' event was emitted with no listener
    outExists,    \* the context file exists on disk
    ui            \* what the handler showed: "none", "warning", "error", "info"

vars == << root, gitignore, fs, deletes, fsPaths, pc, allow,
           idx, inputLog, files, origin, statSeen, estimatedBytes, asked,
           choice, sink, ended, listening, doc, fileIdx, readLog, buildResult,
           uncaught, outExists, ui >>

-----------------------------------------------------------------------------
(* Bounds of the model *)

MaxInputs == 2
MaxDeletes == 1

-----------------------------------------------------------------------------
(* Program constants *)

ScanWindow == 8192
ConfirmFiles == 1000
ConfirmMB == 10
ClipboardMB == 5

BytesPerMB == 1024 * 1024

-----------------------------------------------------------------------------
(* The path universe *)

EmptyPath == << >>            \* the empty string ""
WsRoot    == << "ws" >>
Cwd       == << "home" >>     \* process.cwd(), which path.relative("", p) resolves against
SrcDir    == << "ws", "src" >>
OutDir    == << "out" >>      \* a directory outside the workspace root
FileA     == << "ws", "src", "a.txt" >>
FileB     == << "ws", "src", "b.log" >>
FileC     == << "out", "c.log" >>
Missing   == << "ws", "gone" >>

Dirs      == { SrcDir, OutDir }
Files     == { FileA, FileB, FileC }
InputPaths == { SrcDir, OutDir, FileB, Missing }

Min(a, b) == IF a < b THEN a ELSE b

IsPrefix(d, p) == Len(d) <= Len(p) /\ SubSeq(p, 1, Len(d)) = d

\* path.relative(from, to): "" resolves to the working directory
CommonLen(a, b) ==
    LET n == Min(Len(a), Len(b))
        ks == { k \in 0..n : \A i \in 1..k : a[i] = b[i] }
    IN  CHOOSE k \in ks : \A j \in ks : j <= k

Relative(from, to) ==
    LET f == IF from = EmptyPath THEN Cwd ELSE from
        k == CommonLen(f, to)
    IN  [ i \in 1..(Len(f) - k) |-> ".." ] \o SubSeq(to, k + 1, Len(to))

-----------------------------------------------------------------------------
(* The ignore package: ig.ignores(relativePath).  Patterns are literal     *)
(* names without a slash, which match a segment at any depth.  A release   *)
(* that validates its argument throws on a path that is not inside the     *)
(* root ("../x"); one that does not matches the patterns against it.       *)

IgnoresResult(ig, rel) ==
    IF ig.strict /\ Len(rel) > 0 /\ rel[1] = ".."
    THEN "throws"
    ELSE IF \E i \in 1..Len(rel) : rel[i] \in ig.patterns
         THEN "ignored" ELSE "kept"

AllowAll == [ ig |-> FALSE, patterns |-> {}, strict |-> FALSE ]

\* the closure returned by buildIgnoreFilter, applied to an absolute path
AllowResult(a, r, p) ==
    IF ~a.ig THEN "kept"
    ELSE LET res == IgnoresResult(a, Relative(r, p))
         IN  IF res = "throws" THEN "throws"
             ELSE IF res = "ignored" THEN "ignored" ELSE "kept"

-----------------------------------------------------------------------------
(* Sequences *)

RECURSIVE SeqsUpTo(_, _)
SeqsUpTo(S, n) ==
    IF n = 0 THEN { << >> }
    ELSE LET shorter == SeqsUpTo(S, n - 1)
         IN  shorter \cup { Append(s, x) : s \in { t \in shorter : Len(t) = n - 1 }, x \in S }

Range(s) == { s[i] : i \in 1..Len(s) }

\* the orders in which a set can be enumerated
Orders(S) ==
    { s \in [ 1..Cardinality(S) -> S ] : Range(s) = S }

Under(d) == { f \in Files : IsPrefix(d, f) }

-----------------------------------------------------------------------------
(* File contents *)

Content(len, nuls, readable) ==
    [ exists |-> TRUE, readable |-> readable, len |-> len, nuls |-> nuls ]

Absent == [ exists |-> FALSE, readable |-> FALSE, len |-> 0, nuls |-> {} ]

Text        == Content(3, {}, TRUE)
NulFirst    == Content(3, {0}, TRUE)
NulLastIn   == Content(ScanWindow, {ScanWindow - 1}, TRUE)
NulFirstOut == Content(ScanWindow + 1, {ScanWindow}, TRUE)
Large       == Content(ConfirmMB * BytesPerMB, {}, TRUE)
Locked      == Content(3, {}, FALSE)

\* Buffer[i] of a file that was read
ByteAt(buffer, i) == IF i \in buffer.nuls THEN 0 ELSE 1

\* fs.promises.readFile(abs): the buffer, or a failure
ReadFile(fsys, abs) ==
    IF fsys[abs].exists /\ fsys[abs].readable
    THEN [ ok |-> TRUE, len |-> fsys[abs].len, nuls |-> fsys[abs].nuls ]
    ELSE [ ok |-> FALSE, len |-> 0, nuls |-> {} ]

\* fs.statSync(abs).size, -1 standing for the exception
StatSize(fsys, abs) == IF fsys[abs].exists THEN fsys[abs].len ELSE -1

\* buffer.toString("utf8") of a buffer of single-byte characters
Utf8Decode(buffer) == [ chars |-> buffer.len, nuls |-> buffer.nuls ]

-----------------------------------------------------------------------------
(* looksBinary, lines 20-27 *)

\* variant: the scan runs over the whole buffer
looksBinaryWholeBuffer(buffer) ==
    \E i \in 0..(buffer.len - 1) : ByteAt(buffer, i) = 0

looksBinary(buffer) ==
    LET max == Min(buffer.len, ScanWindow)
    IN  \E i \in 0..(max - 1) : ByteAt(buffer, i) = 0

-----------------------------------------------------------------------------
(* buildIgnoreFilter, lines 7-17: the ignore instance is created here, and  *)
(* with it the behaviour of the installed release on paths outside root.   *)

buildIgnoreFilter(gi) ==
    IF gi.readable
    THEN { [ ig |-> TRUE, patterns |-> gi.patterns, strict |-> s ] : s \in BOOLEAN }
    ELSE { AllowAll }

-----------------------------------------------------------------------------
(* Path expansion, lines 168-185 *)

Entry(r, p) == [ abs |-> p, rel |-> Relative(r, p) ]

\* variant: the enumerated files are pushed without the filter
DirContributionUnfiltered(a, r, raw) ==
    [ i \in 1..Len(raw) |-> Entry(r, raw[i]) ]

\* rawFiles.filter((u) => allow(u.fsPath)) and the pushes that follow; an
\* exception thrown by the filter leaves the loop body before any push
DirContribution(a, r, raw) ==
    IF \E i \in 1..Len(raw) : AllowResult(a, r, raw[i]) = "throws"
    THEN << >>
    ELSE LET kept == SelectSeq(raw, LAMBDA u : AllowResult(a, r, u) = "kept")
         IN  [ i \in 1..Len(kept) |-> Entry(r, kept[i]) ]

\* variant: a selected file goes through the filter like an enumerated one
FileContributionFiltered(a, r, p) == DirContribution(a, r, << p >>)

\* the else branch: the path itself, not filtered
FileContribution(a, r, p) == << Entry(r, p) >>

\* variant: the error leaves the loop
IdxAfterErrorAborts(i, n) == n + 1

\* the catch block logs and the for loop goes on with the next path
IdxAfterError(i, n) == i + 1

\* fs.promises.stat(p)
StatKind(fsys, p) ==
    IF p \in Dirs THEN "dir"
    ELSE IF p \in Files /\ fsys[p].exists THEN "file"
    ELSE "fail"

-----------------------------------------------------------------------------
(* Pre-flight, lines 189-209 *)

\* the loop of lines 194-201 over entries lo..hi: a failed stat adds nothing.
\* The additions are grouped by halves, which keeps the evaluation shallow
\* on long lists and gives the sum of the loop.
RECURSIVE SumSizes(_, _, _, _)
SumSizes(fsys, entries, lo, hi) ==
    IF lo > hi THEN 0
    ELSE IF lo = hi
         THEN LET sz == StatSize(fsys, entries[lo].abs)
              IN  IF sz >= 0 THEN sz ELSE 0
         ELSE LET mid == (lo + hi) \div 2
              IN  SumSizes(fsys, entries, lo, mid) + SumSizes(fsys, entries, mid + 1, hi)

\* variant: the thresholds themselves ask for confirmation
NeedsConfirmationInclusive(totalFiles, bytes) ==
    totalFiles >= ConfirmFiles \/ bytes >= ConfirmMB * BytesPerMB

\* totalFiles > 1000 || estimatedMB > 10, estimatedMB being bytes / 1024 / 1024
\* in floating point: the division by a power of two is exact
NeedsConfirmation(totalFiles, bytes) ==
    totalFiles > ConfirmFiles \/ bytes > ConfirmMB * BytesPerMB

-----------------------------------------------------------------------------
(* The chunks written to the stream, lines 217-244 *)

NoBody == [ chars |-> 0, nuls |-> {} ]

\* variant: the listing is written in reverse
StructureChunkReversed(entries) ==
    [ kind |-> "structure",
      rels |-> [ i \in 1..Len(entries) |-> entries[Len(entries) + 1 - i].rel ],
      rel |-> EmptyPath, body |-> NoBody, entry |-> 0 ]

\* the structure section: files.map((f) => f.rel).join("\n")
StructureChunk(entries) ==
    [ kind |-> "structure", rels |-> [ i \in 1..Len(entries) |-> entries[i].rel ],
      rel |-> EmptyPath, body |-> NoBody, entry |-> 0 ]

\* header, decoded content and footer of one file
ContentChunk(entries, k, buffer) ==
    [ kind |-> "content", rels |-> << >>, rel |-> entries[k].rel,
      body |-> Utf8Decode(buffer), entry |-> k ]

\* header and the [unreadable] marker
UnreadableChunk(entries, k) ==
    [ kind |-> "unreadable", rels |-> << >>, rel |-> entries[k].rel,
      body |-> NoBody, entry |-> k ]

\* what one iteration of the assembly loop writes for entry k
SectionFor(entries, k, res) ==
    IF ~res.ok THEN << UnreadableChunk(entries, k) >>
    ELSE IF looksBinary(res) THEN << >>
    ELSE << ContentChunk(entries, k, res) >>

\* variant: a failed read leaves the loop
ReadErrorAborts(k, n) == n + 1

\* the catch block writes the marker and the loop goes on with the next entry
FileIdxAfterReadError(k, n) == k + 1

-----------------------------------------------------------------------------
(* Initial states: a command is invoked on a selection, nothing ran yet *)

NoGitignore  == [ readable |-> FALSE, patterns |-> {} ]
HasGitignore == [ readable |-> TRUE, patterns |-> { "b.log", "c.log" } ]

Fresh ==
    /\ deletes = 0
    /\ allow = AllowAll
    /\ idx = 1
    /\ inputLog = << >>
    /\ files = << >>
    /\ origin = << >>
    /\ statSeen = << >>
    /\ estimatedBytes = 0
    /\ asked = FALSE
    /\ choice = "none"
    /\ sink = "none"
    /\ ended = FALSE
    /\ listening = FALSE
    /\ doc = << >>
    /\ fileIdx = 1
    /\ readLog = << >>
    /\ buildResult = "none"
    /\ uncaught = FALSE
    /\ outExists = FALSE
    /\ ui = "none"

\* With no workspace folder no .gitignore is looked for.  The file outside
\* the root is the large one, so that selections with it reach the gate.
Init ==
    /\ root \in { EmptyPath, WsRoot }
    /\ gitignore \in { NoGitignore, HasGitignore }
    /\ root = EmptyPath => gitignore = NoGitignore
    /\ fs \in { [ f \in Files |-> IF f = FileA THEN a ELSE IF f = FileC THEN Large ELSE Text ] :
                   a \in { Text, NulFirst } }
    /\ fsPaths \in SeqsUpTo(InputPaths, MaxInputs)
    /\ pc = "handler"
    /\ Fresh

-----------------------------------------------------------------------------
(* handlerFactory, lines 43-99 and 120-136: up to the call of              *)
(* buildPromptToFile.  mkdir may fail, which the catch block reports.      *)

HandlerStart ==
    /\ pc = "handler"
    /\ \/ /\ Len(fsPaths) = 0
          /\ ui' = "warning"
          /\ pc' = "done"
       \/ /\ Len(fsPaths) > 0
          /\ \E mkdirOk \in BOOLEAN :
                IF mkdirOk
                THEN pc' = "build" /\ ui' = ui
                ELSE pc' = "done" /\ ui' = "error"
    /\ UNCHANGED << root, gitignore, fs, deletes, fsPaths, allow,
                    idx, inputLog, files, origin, statSeen, estimatedBytes, asked,
                    choice, sink, ended, listening, doc, fileIdx, readLog,
                    buildResult, uncaught, outExists >>

(* buildPromptToFile, lines 157-166 *)
BuildFilter ==
    /\ pc = "build"
    /\ allow' \in (IF root # EmptyPath THEN buildIgnoreFilter(gitignore) ELSE { AllowAll })
    /\ files' = << >>
    /\ idx' = 1
    /\ buildResult' = "pending"
    /\ pc' = IF Len(fsPaths) = 0 THEN "preflight" ELSE "expand"
    /\ UNCHANGED << root, gitignore, fs, deletes, fsPaths,
                    inputLog, origin, statSeen, estimatedBytes, asked,
                    choice, sink, ended, listening, doc, fileIdx, readLog,
                    uncaught, outExists, ui >>

(* buildPromptToFile, lines 168-185: one iteration of the expansion loop *)
ExpandPath ==
    /\ pc = "expand"
    /\ idx <= Len(fsPaths)
    /\ LET p == fsPaths[idx]
           kind == StatKind(fs, p)
       IN  \/ /\ kind = "dir"
              /\ \E raw \in Orders({ f \in Under(p) : fs[f].exists }) :
                    LET add == DirContribution(allow, root, raw)
                        threw == \E i \in 1..Len(raw) :
                                    AllowResult(allow, root, raw[i]) = "throws"
                    IN  /\ files' = files \o add
                        /\ origin' = origin \o [ i \in 1..Len(add) |-> idx ]
                        /\ inputLog' = Append(inputLog,
                              [ kind |-> "dir", raw |-> raw, threw |-> threw ])
                        /\ idx' = IF threw THEN IdxAfterError(idx, Len(fsPaths))
                                  ELSE idx + 1
           \/ /\ kind = "file"
              /\ LET add == FileContribution(allow, root, p)
                 IN  /\ files' = files \o add
                     /\ origin' = origin \o [ i \in 1..Len(add) |-> idx ]
              /\ inputLog' = Append(inputLog,
                    [ kind |-> "file", raw |-> << >>, threw |-> FALSE ])
              /\ idx' = idx + 1
           \/ /\ kind = "fail"
              /\ files' = files
              /\ origin' = origin
              /\ inputLog' = Append(inputLog,
                    [ kind |-> "fail", raw |-> << >>, threw |-> FALSE ])
              /\ idx' = IdxAfterError(idx, Len(fsPaths))
    /\ pc' = IF idx' > Len(fsPaths) THEN "preflight" ELSE "expand"
    /\ UNCHANGED << root, gitignore, fs, deletes, fsPaths, allow,
                    statSeen, estimatedBytes, asked,
                    choice, sink, ended, listening, doc, fileIdx, readLog,
                    buildResult, uncaught, outExists, ui >>

(* buildPromptToFile, lines 187-207: the synchronous stat loop and the gate *)
Preflight ==
    /\ pc = "preflight"
    /\ statSeen' = [ k \in 1..Len(files) |-> StatSize(fs, files[k].abs) ]
    /\ estimatedBytes' = SumSizes(fs, files, 1, Len(files))
    /\ asked' = NeedsConfirmation(Len(files), estimatedBytes')
    /\ pc' = IF asked' THEN "prompt" ELSE "open"
    /\ UNCHANGED << root, gitignore, fs, deletes, fsPaths, allow,
                    idx, inputLog, files, origin,
                    choice, sink, ended, listening, doc, fileIdx, readLog,
                    buildResult, uncaught, outExists, ui >>

(* lines 207-208: the modal warning is answered "Yes", or dismissed *)
AnswerPrompt ==
    /\ pc = "prompt"
    /\ \E c \in { "Yes", "dismissed" } :
          /\ choice' = c
          /\ IF c # "Yes"
             THEN pc' = "built" /\ buildResult' = "resolved"
             ELSE pc' = "open" /\ buildResult' = buildResult
    /\ UNCHANGED << root, gitignore, fs, deletes, fsPaths, allow,
                    idx, inputLog, files, origin, statSeen, estimatedBytes, asked,
                    sink, ended, listening, doc, fileIdx, readLog,
                    uncaught, outExists, ui >>

(* lines 213-227 (and 247-252 when there is no entry): the stream is       *)
(* created, the structure section written, the first read issued           *)
OpenSink ==
    /\ pc = "open"
    /\ sink' = "open"
    /\ doc' = << StructureChunk(files) >>
    /\ fileIdx' = 1
    /\ IF Len(files) = 0
       THEN ended' = TRUE /\ listening' = TRUE /\ pc' = "await"
       ELSE ended' = FALSE /\ listening' = FALSE /\ pc' = "reading"
    /\ UNCHANGED << root, gitignore, fs, deletes, fsPaths, allow,
                    idx, inputLog, files, origin, statSeen, estimatedBytes, asked,
                    choice, readLog, buildResult, uncaught, outExists, ui >>

(* lines 227-246 (and 247-252 after the last entry): the pending read      *)
(* settles, the entry's section is written, the next read is issued or the *)
(* stream is ended and its listeners attached                              *)
ReadDone ==
    /\ pc = "reading"
    /\ LET res == ReadFile(fs, files[fileIdx].abs)
       IN  /\ doc' = doc \o SectionFor(files, fileIdx, res)
           /\ readLog' = Append(readLog, res)
           /\ fileIdx' = IF res.ok THEN fileIdx + 1
                         ELSE FileIdxAfterReadError(fileIdx, Len(files))
    /\ IF fileIdx' > Len(files)
       THEN ended' = TRUE /\ listening' = TRUE /\ pc' = "await"
       ELSE ended' = ended /\ listening' = listening /\ pc' = "reading"
    /\ UNCHANGED << root, gitignore, fs, deletes, fsPaths, allow,
                    idx, inputLog, files, origin, statSeen, estimatedBytes, asked,
                    choice, sink, buildResult, uncaught, outExists, ui >>

(* The stream emits 'error' (open, write or close failed) while the        *)
(* function is suspended.  With the listener of line 251 attached the      *)
(* promise awaited in the finally block rejects; with none attached yet    *)
(* the event has no handler and the stream is destroyed.                   *)
SinkError ==
    /\ sink = "open"
    /\ pc \in { "reading", "await" }
    /\ sink' = "destroyed"
    /\ outExists' \in BOOLEAN
    /\ IF listening
       THEN buildResult' = "rejected" /\ pc' = "built" /\ uncaught' = uncaught
       ELSE buildResult' = buildResult /\ pc' = pc /\ uncaught' = TRUE
    /\ UNCHANGED << root, gitignore, fs, deletes, fsPaths, allow,
                    idx, inputLog, files, origin, statSeen, estimatedBytes, asked,
                    choice, ended, listening, doc, fileIdx, readLog, ui >>

(* lines 249-255: the ended stream emits 'finish' *)
SinkFinish ==
    /\ sink = "open"
    /\ pc = "await"
    /\ ended
    /\ sink' = "finished"
    /\ outExists' = TRUE
    /\ buildResult' = "resolved"
    /\ pc' = "built"
    /\ UNCHANGED << root, gitignore, fs, deletes, fsPaths, allow,
                    idx, inputLog, files, origin, statSeen, estimatedBytes, asked,
                    choice, ended, listening, doc, fileIdx, readLog, uncaught, ui >>

\* the characters of file content in the chunks written
RECURSIVE ContentChars(_, _)
ContentChars(d, j) ==
    IF j > Len(d) THEN 0 ELSE d[j].body.chars + ContentChars(d, j + 1)

\* stat.size / 1024 / 1024 > 5, lines 102-104: the file holds the content and
\* the headings and paths around it, whose lengths are not modelled, so a file
\* whose content alone is within the limit may be on either side of it
ClipboardTooLarge(d) ==
    IF ContentChars(d, 1) > ClipboardMB * BytesPerMB THEN { TRUE } ELSE BOOLEAN

(* handlerFactory, lines 101-118, 138-146 and 149-152: what follows the    *)
(* await of buildPromptToFile.  fs.promises.stat (clipboard command) and   *)
(* showTextDocument (file command) fail on a context file that does not    *)
(* exist and are taken to succeed on one that does; the size of an         *)
(* existing file decides the clipboard warning.  The two commands run the  *)
(* same code up to here, so the command is drawn where they part.          *)
HandlerAfterBuild ==
    /\ pc = "built"
    /\ pc' = "done"
    /\ IF buildResult = "rejected" \/ ~outExists
       THEN ui' = "error"
       ELSE \E copyToClipboard \in BOOLEAN :
               IF copyToClipboard
               THEN \E tooLarge \in ClipboardTooLarge(doc) :
                       ui' = IF tooLarge THEN "warning" ELSE "info"
               ELSE ui' = "info"
    /\ UNCHANGED << root, gitignore, fs, deletes, fsPaths, allow,
                    idx, inputLog, files, origin, statSeen, estimatedBytes, asked,
                    choice, sink, ended, listening, doc, fileIdx, readLog,
                    buildResult, uncaught, outExists >>

(* The environment removes a file while the command runs *)
DeleteFile ==
    /\ pc \in { "expand", "preflight", "prompt", "open", "reading" }
    /\ deletes < MaxDeletes
    /\ \E f \in Files :
          /\ fs[f].exists
          /\ fs' = [ fs EXCEPT ![f] = Absent ]
    /\ deletes' = deletes + 1
    /\ UNCHANGED << root, gitignore, fsPaths, pc, allow,
                    idx, inputLog, files, origin, statSeen, estimatedBytes, asked,
                    choice, sink, ended, listening, doc, fileIdx, readLog,
                    buildResult, uncaught, outExists, ui >>

Next ==
    \/ HandlerStart
    \/ BuildFilter
    \/ ExpandPath
    \/ Preflight
    \/ AnswerPrompt
    \/ OpenSink
    \/ ReadDone
    \/ SinkError
    \/ SinkFinish
    \/ HandlerAfterBuild
    \/ DeleteFile

Spec == Init /\ [][Next]_vars

-----------------------------------------------------------------------------
(* A second set of initial states: directories selected in a workspace     *)
(* with no .gitignore, the files holding every kind of content             *)

AsmInit ==
    /\ root = WsRoot
    /\ gitignore = NoGitignore
    /\ fs \in { [ f \in Files |-> IF f = FileA THEN a ELSE IF f = FileB THEN b ELSE c ] :
                   a \in { Text, NulFirst, NulLastIn, NulFirstOut, Locked },
                   b \in { Text, NulFirst, NulLastIn, NulFirstOut, Locked },
                   c \in { Text, Large } }
    /\ fsPaths \in { << SrcDir >>, << OutDir, SrcDir >> }
    /\ pc = "handler"
    /\ Fresh

AsmSpec == AsmInit /\ [][Next]_vars

-----------------------------------------------------------------------------
(* A third set of initial states, for the pre-flight gate: one directory   *)
(* of n files was selected and expanded, and the function stands before    *)
(* its stat loop.  The first file and the others each have one of a few    *)
(* sizes, or were removed since the enumeration; the sizes of a long       *)
(* listing are small, which keeps the sums within TLC's integers.          *)

BigDir == << "ws", "big" >>
BigFile(i) == << "ws", "big", ToString(i) >>

\* sizes of a file of a long listing: the last is the least size at which
\* ConfirmFiles files exceed the byte threshold together
SmallContents ==
    { Absent, Content(0, {}, TRUE), Content(1, {}, TRUE),
      Content((ConfirmMB * BytesPerMB) \div ConfirmFiles + 1, {}, TRUE) }

GateContents ==
    SmallContents \cup { Content(ConfirmMB * BytesPerMB - 1, {}, TRUE), Large }

GateInit ==
    /\ root = WsRoot
    /\ gitignore = NoGitignore
    /\ fsPaths = << BigDir >>
    /\ \E n \in { 1, 2, ConfirmFiles - 1, ConfirmFiles, ConfirmFiles + 1 } :
       \E first \in GateContents, rest \in (IF n > 2 THEN SmallContents ELSE GateContents) :
          /\ fs = [ p \in { BigFile(i) : i \in 1..n } |->
                       IF p = BigFile(1) THEN first ELSE rest ]
          /\ files = [ i \in 1..n |-> Entry(root, BigFile(i)) ]
          /\ origin = [ i \in 1..n |-> 1 ]
          /\ inputLog = << [ kind |-> "dir", raw |-> [ i \in 1..n |-> BigFile(i) ],
                             threw |-> FALSE ] >>
    /\ pc = "preflight"
    /\ deletes = 0
    /\ allow = AllowAll
    /\ idx = 2
    /\ statSeen = << >>
    /\ estimatedBytes = 0
    /\ asked = FALSE
    /\ choice = "none"
    /\ sink = "none"
    /\ ended = FALSE
    /\ listening = FALSE
    /\ doc = << >>
    /\ fileIdx = 1
    /\ readLog = << >>
    /\ buildResult = "pending"
    /\ uncaught = FALSE
    /\ outExists = FALSE
    /\ ui = "none"

GateNext ==
    \/ Preflight
    \/ AnswerPrompt

GateSpec == GateInit /\ [][GateNext]_vars

-----------------------------------------------------------------------------
(* Predicates shared by the properties *)

\* the expansion loop of buildPromptToFile has run to its end
Expanded ==
    \/ pc \in { "preflight", "prompt", "open", "reading", "await", "built" }
    \/ pc = "done" /\ buildResult # "none"

\* the assembly loop has run to its end
Assembled == sink # "none" /\ pc \in { "await", "built", "done" }

\* the patterns read from <root>/.gitignore match the path relative to root
Marked(p) ==
    /\ allow.ig
    /\ \E i \in 1..Len(Relative(root, p)) : Relative(root, p)[i] \in allow.patterns

OutsideRoot(p) == root # EmptyPath /\ ~IsPrefix(root, p)

Collected == { files[k].abs : k \in 1..Len(files) }

\* the chunks written for entry k
SectionsOf(k) == SelectSeq(doc, LAMBDA c : c.entry = k)

\* a NUL among the first min(length, 8192) bytes
NulInWindow(b) == \E o \in b.nuls : o < 8192 /\ o < b.len

\* the entries input i gives on its own: what its stat and enumeration gave
OwnEntries(i) ==
    IF inputLog[i].kind = "file" THEN << fsPaths[i] >>
    ELSE IF inputLog[i].kind = "dir" /\ ~inputLog[i].threw
         THEN SelectSeq(inputLog[i].raw, LAMBDA u : ~Marked(u))
         ELSE << >>

FromInput(i) ==
    LET ks == SelectSeq([ k \in 1..Len(files) |-> k ], LAMBDA k : origin[k] = i)
    IN  [ n \in 1..Len(ks) |-> files[ks[n]].abs ]

\* the collected list follows the inputs in the order given and, within a
\* directory, the order of the enumeration
InExpansionOrder ==
    /\ \A i \in 1..Len(inputLog) : FromInput(i) = OwnEntries(i)
    /\ \A k \in 1..Len(origin) : \A m \in 1..Len(origin) :
          k < m => origin[k] <= origin[m]

-----------------------------------------------------------------------------
(* C1 *)

\* C1 as stated: a file enumerated under a directory input that the root's
\* .gitignore marks as ignored is absent from the collected list.
C1_IgnoredNeverCollected ==
    Expanded =>
        \A i \in 1..Len(inputLog) :
            inputLog[i].kind = "dir" =>
                \A j \in 1..Len(inputLog[i].raw) :
                    Marked(inputLog[i].raw[j]) => inputLog[i].raw[j] \notin Collected

\* C1 amended: no entry contributed by a directory input is marked as ignored
\* by the root's .gitignore; an ignored file is in the collected list, and so
\* in the structure listing, only as the entry of an individually selected path.
C1_IgnoredOnlyIfSelected ==
    Expanded =>
        /\ \A k \in 1..Len(files) :
              Marked(files[k].abs) => inputLog[origin[k]].kind = "file"
        /\ Len(doc) > 0 =>
              \A j \in 1..Len(doc[1].rels) :
                  /\ j <= Len(files)
                  /\ doc[1].rels[j] = files[j].rel
                  /\ Marked(files[j].abs) => inputLog[origin[j]].kind = "file"

\* a directory was expanded, one of its files is ignored and was left out,
\* and the structure section has been written
C1_Witness ==
    /\ Len(doc) > 0
    /\ \E i \in 1..Len(inputLog) :
          /\ inputLog[i].kind = "dir"
          /\ ~inputLog[i].threw
          /\ \E j \in 1..Len(inputLog[i].raw) :
                /\ Marked(inputLog[i].raw[j])
                /\ inputLog[i].raw[j] \notin Collected

-----------------------------------------------------------------------------
(* C2 *)

\* C2 as stated: a file enumerated from a directory input that lies outside
\* the workspace root is never removed by ignore filtering.
C2_OutsideRootNeverFiltered ==
    Expanded =>
        \A i \in 1..Len(inputLog) :
            inputLog[i].kind = "dir" =>
                \A j \in 1..Len(inputLog[i].raw) :
                    OutsideRoot(inputLog[i].raw[j]) =>
                        \E k \in 1..Len(files) :
                            origin[k] = i /\ files[k].abs = inputLog[i].raw[j]

-----------------------------------------------------------------------------
(* C3 *)

\* C3 as stated: when the confirmation is dismissed, no output file is
\* created and the command handler reports no error.
C3_DeclineIsSilent ==
    choice = "dismissed" =>
        /\ sink = "none"
        /\ ~outExists
        /\ ui # "error"

-----------------------------------------------------------------------------
(* C4 *)

\* C4 as stated: a run whose sink failed ends in a failure propagated to the
\* caller.  A destroyed stream emits nothing more, so once the function
\* awaits the stream's completion the promise must already be rejected.
C4_SinkFailurePropagates ==
    sink = "destroyed" => (buildResult = "rejected" \/ pc = "reading")

-----------------------------------------------------------------------------
(* C5 *)

\* C5: a failed read does not end the run: when the assembly loop is over
\* every entry has been read, each entry whose read failed is in the
\* structure listing and has exactly one section, its header with the
\* [unreadable] marker, and every entry that was read has the section its own
\* bytes call for.
C5_UnreadableIsolated ==
    Assembled =>
        /\ Len(readLog) = Len(files)
        /\ \A k \in 1..Len(readLog) :
              /\ doc[1].rels[k] = files[k].rel
              /\ ~readLog[k].ok =>
                    /\ Len(SectionsOf(k)) = 1
                    /\ SectionsOf(k)[1].kind = "unreadable"
                    /\ SectionsOf(k)[1].rel = files[k].rel
              /\ readLog[k].ok =>
                    /\ Len(SectionsOf(k)) = (IF NulInWindow(readLog[k]) THEN 0 ELSE 1)
                    /\ \A n \in 1..Len(SectionsOf(k)) : SectionsOf(k)[n].kind = "content"

\* the run finished, a read failed and a later entry was rendered
C5_Witness ==
    /\ pc = "built"
    /\ sink = "finished"
    /\ \E k \in 1..Len(readLog) : \E m \in 1..Len(readLog) :
          /\ k < m
          /\ ~readLog[k].ok
          /\ readLog[m].ok
          /\ Len(SectionsOf(m)) = 1

-----------------------------------------------------------------------------
(* C6 *)

-----------------------------------------------------------------------------
(* C7 *)

RECURSIVE SeenBytes(_, _)
SeenBytes(lo, hi) ==
    IF lo > hi THEN 0
    ELSE IF lo = hi THEN (IF statSeen[lo] < 0 THEN 0 ELSE statSeen[lo])
    ELSE SeenBytes(lo, (lo + hi) \div 2) + SeenBytes((lo + hi) \div 2 + 1, hi)

StatTotal == SeenBytes(1, Len(statSeen))

\* the stat loop of the pre-flight check has run
Gated == Expanded /\ pc # "preflight"

\* C7: the confirmation is asked for exactly when there are more than 1000
\* entries or the stat sizes, a failed stat counting 0, add up to more than
\* 10 * 2^20 bytes.
C7_ConfirmationThreshold ==
    Gated =>
        /\ Len(statSeen) = Len(files)
        /\ estimatedBytes = StatTotal
        /\ asked <=> (Len(files) > 1000 \/ StatTotal > 10 * 1048576)

\* exactly 1000 entries, one of which could not be statted: no confirmation
C7_Witness ==
    /\ Gated
    /\ Len(files) = 1000
    /\ \E k \in 1..Len(statSeen) : statSeen[k] = -1
    /\ ~asked

-----------------------------------------------------------------------------
(* C8 *)

\* C8: every input path that stats as a non-directory is in the collected
\* list, whatever the ignore patterns say, and in the structure listing.
C8_SelectedFileBypassesIgnore ==
    Expanded =>
        \A i \in 1..Len(inputLog) :
            inputLog[i].kind = "file" =>
                \E k \in 1..Len(files) :
                    /\ origin[k] = i
                    /\ files[k].abs = fsPaths[i]
                    /\ Len(doc) > 0 => doc[1].rels[k] = Relative(root, fsPaths[i])

\* an individually selected file that the patterns mark as ignored is listed
C8_Witness ==
    /\ Len(doc) > 0
    /\ \E i \in 1..Len(inputLog) :
          /\ inputLog[i].kind = "file"
          /\ Marked(fsPaths[i])
          /\ \E k \in 1..Len(doc[1].rels) : doc[1].rels[k] = Relative(root, fsPaths[i])

-----------------------------------------------------------------------------
(* C9 *)

\* C9: an input whose stat fails is skipped and the loop goes on: every input
\* is processed, and each contributes exactly its own entries, in input order.
C9_BadPathSkipped ==
    Expanded =>
        /\ Len(inputLog) = Len(fsPaths)
        /\ \A i \in 1..Len(inputLog) : FromInput(i) = OwnEntries(i)
        /\ \A k \in 1..Len(origin) : \A m \in 1..Len(origin) :
              k < m => origin[k] <= origin[m]

\* a path that could not be statted came first and a later input contributed
C9_Witness ==
    /\ Expanded
    /\ Len(inputLog) >= 2
    /\ inputLog[1].kind = "fail"
    /\ \E k \in 1..Len(files) : origin[k] = 2

-----------------------------------------------------------------------------
(* C10 *)

\* C10: the first chunk written is the structure section, listing the
\* relative path of every collected entry in collection order; the sections
\* after it follow the same order; one read is pending at a time.
C10_StructureFirstInOrder ==
    /\ Len(doc) > 0 =>
          /\ InExpansionOrder
          /\ doc[1].kind = "structure"
          /\ doc[1].rels = [ k \in 1..Len(files) |-> files[k].rel ]
          /\ \A j \in 2..Len(doc) :
                /\ doc[j].kind \in { "content", "unreadable" }
                /\ doc[j].entry \in 1..Len(files)
                /\ doc[j].rel = files[doc[j].entry].rel
                /\ \A n \in 2..Len(doc) : n < j => doc[n].entry < doc[j].entry
    /\ pc = "reading" => fileIdx = Len(readLog) + 1
    /\ \A j \in 1..Len(doc) : doc[j].entry <= Len(readLog)

\* two inputs were given and two sections follow the structure section
C10_Witness ==
    /\ Assembled
    /\ Len(fsPaths) >= 2
    /\ Len(doc) >= 3
    /\ \E k \in 1..Len(files) : \E m \in 1..Len(files) :
          k < m /\ origin[k] < origin[m] /\ files[k].rel # files[m].rel

====
